---------------------------- MODULE Spec2Model ----------------------------
(***************************************************************************)
(* Parlay settlement in GAGB: the store (games, odds quotes, parlays and   *)
(* their bets), the handlers that write it, the bet settlement evaluator   *)
(* and the parlay aggregator of backend/app/services/parlay_service.py.    *)
(*                                                                         *)
(* Conventions.  A nullable column holds None (the empty set) or Some(v).  *)
(* Spread and total lines are kept in half points (the stored Float times  *)
(* two), so that -1.5 is -3 and 6.0 is 12; a score s is compared against a *)
(* line as 2*s.  Prices, stakes and payouts are small integers, on which   *)
(* the code's float products are exact.  Timestamps, justification text,   *)
(* confidence_score and team rows take no part in settlement and are left  *)
(* out of the rows.                                                        *)
(***************************************************************************)
EXTENDS Integers, Sequences, FiniteSets, TLC

VARIABLES
    games,          \* table games: id -> row
    odds,           \* table odds: <<game_id, sportsbook>> -> row
    player_props,   \* table player_props: <<game_id, sportsbook, player_id, prop_type>> -> row
    parlays,        \* table parlays: id -> row
    bets,           \* table bets: the rows in primary-key order
    evals,          \* statuses returned by direct calls of the evaluator / aggregator
    sessions        \* database sessions of sweep requests in flight: id -> position and reads

vars == <<games, odds, player_props, parlays, bets, evals, sessions>>

--------------------------------------------------------------------------
(* Bounds of the model *)

MaxParlays == 2
MaxLegs == 2
MaxBets == 2
MaxScore == 2
MaxEvals == 2
MaxAggLegs == 3

--------------------------------------------------------------------------
(* Nullable values *)

None == {}
Some(v) == {v}
Get(o) == CHOOSE v \in o : TRUE
Opt(S) == {None} \cup {Some(v) : v \in S}

MaxId(f) == IF DOMAIN f = {} THEN 0
            ELSE CHOOSE m \in DOMAIN f : \A k \in DOMAIN f : k <= m

RECURSIVE Product(_)
Product(s) == IF s = <<>> THEN 1 ELSE Head(s) * Product(Tail(s))

RECURSIVE SeqsUpTo(_, _)
SeqsUpTo(S, n) == IF n = 0 THEN {<<>>}
                  ELSE SeqsUpTo(S, n - 1) \cup
                       {Append(s, x) : s \in {t \in SeqsUpTo(S, n - 1) : Len(t) = n - 1}, x \in S}

--------------------------------------------------------------------------
(* Rows *)

BetStatuses == {"pending", "won", "lost", "push"}
Resolved == {"won", "lost", "push"}
ReferenceBook == "DraftKings"
Books == {"DraftKings", "FanDuel"}

GameRow(ext, st, hs, as) ==
    [external_id |-> ext, status |-> st, home_score |-> hs, away_score |-> as]

Quote(hml, aml, hsp, asp, hso, aso, ou, oo, uo) ==
    [home_moneyline |-> hml, away_moneyline |-> aml,
     home_spread |-> hsp, away_spread |-> asp,
     home_spread_odds |-> hso, away_spread_odds |-> aso,
     over_under |-> ou, over_odds |-> oo, under_odds |-> uo]

BetData(g, bt, sel, o, pl, pt) ==
    [game_id |-> g, bet_type |-> bt, selection |-> sel, odds |-> o,
     player_id |-> pl, prop_type |-> pt]

--------------------------------------------------------------------------
(* Bet Settlement Evaluator.  coin is the outcome of random.random() < 0.5 *)

GameOf(bet) == IF bet.game_id \in DOMAIN games THEN Some(games[bet.game_id]) ELSE None

\* reference lookup that falls back on any other book's quote of the game
ReferenceQuote_any_book(game_id) ==
    IF <<game_id, ReferenceBook>> \in DOMAIN odds
    THEN Some(odds[<<game_id, ReferenceBook>>])
    ELSE IF \E k \in DOMAIN odds : k[1] = game_id
         THEN Some(odds[CHOOSE k \in DOMAIN odds : k[1] = game_id])
         ELSE None

ReferenceQuote(game_id) ==
    IF <<game_id, ReferenceBook>> \in DOMAIN odds
    THEN Some(odds[<<game_id, ReferenceBook>>]) ELSE None

Compare(adjusted, other) ==
    IF adjusted > other THEN "won"
    ELSE IF adjusted < other THEN "lost"
    ELSE "push"

\* moneyline comparison with >= in place of > (a tie would pay out)
moneyline_status_tie_wins(bet, game) ==
    LET h == Get(game.home_score)
        a == Get(game.away_score)
    IN  IF bet.selection = "home" THEN (IF h >= a THEN "won" ELSE "lost")
        ELSE IF bet.selection = "away" THEN (IF a >= h THEN "won" ELSE "lost")
        ELSE "pending"

moneyline_status(bet, game) ==
    LET h == Get(game.home_score)
        a == Get(game.away_score)
    IN  IF bet.selection = "home" THEN (IF h > a THEN "won" ELSE "lost")
        ELSE IF bet.selection = "away" THEN (IF a > h THEN "won" ELSE "lost")
        ELSE "pending"

\* spread grading in which the away side reads the home line
spread_status_home_line(bet, game) ==
    LET h == Get(game.home_score)
        a == Get(game.away_score)
        q == ReferenceQuote(bet.game_id)
    IN  IF q = None THEN "pending"
        ELSE IF bet.selection = "home"
             THEN IF Get(q).home_spread = None THEN "pending"
                  ELSE Compare(2 * h + Get(Get(q).home_spread), 2 * a)
        ELSE IF bet.selection = "away"
             THEN IF Get(q).home_spread = None THEN "pending"
                  ELSE Compare(2 * a + Get(Get(q).home_spread), 2 * h)
        ELSE "pending"

spread_status(bet, game) ==
    LET h == Get(game.home_score)
        a == Get(game.away_score)
        q == ReferenceQuote(bet.game_id)
    IN  IF q = None THEN "pending"
        ELSE IF bet.selection = "home"
             THEN IF Get(q).home_spread = None THEN "pending"
                  ELSE Compare(2 * h + Get(Get(q).home_spread), 2 * a)
        ELSE IF bet.selection = "away"
             THEN IF Get(q).away_spread = None THEN "pending"
                  ELSE Compare(2 * a + Get(Get(q).away_spread), 2 * h)
        ELSE "pending"

\* total grading in which the under side is graded like the over side
over_under_status_under_as_over(bet, game) ==
    LET total == Get(game.home_score) + Get(game.away_score)
        q == ReferenceQuote(bet.game_id)
    IN  IF q = None \/ Get(q).over_under = None THEN "pending"
        ELSE IF bet.selection = "over"
             THEN Compare(2 * total, Get(Get(q).over_under))
        ELSE IF bet.selection = "under"
             THEN Compare(2 * total, Get(Get(q).over_under))
        ELSE "pending"

over_under_status(bet, game) ==
    LET total == Get(game.home_score) + Get(game.away_score)
        q == ReferenceQuote(bet.game_id)
    IN  IF q = None \/ Get(q).over_under = None THEN "pending"
        ELSE IF bet.selection = "over"
             THEN Compare(2 * total, Get(Get(q).over_under))
        ELSE IF bet.selection = "under"
             THEN Compare(Get(Get(q).over_under), 2 * total)
        ELSE "pending"

player_prop_status(bet, coin) == IF coin THEN "won" ELSE "lost"

\* evaluation that settles a player prop before it looks at the scores
determine_bet_status_prop_first(bet, coin) ==
    LET game == GameOf(bet)
    IN  IF game = None \/ Get(game).status # "finished" THEN "pending"
        ELSE IF bet.bet_type = "player_prop" THEN player_prop_status(bet, coin)
        ELSE IF Get(game).home_score = None \/ Get(game).away_score = None THEN "pending"
        ELSE IF bet.bet_type = "moneyline" THEN moneyline_status(bet, Get(game))
        ELSE IF bet.bet_type = "spread" THEN spread_status(bet, Get(game))
        ELSE IF bet.bet_type = "over_under" THEN over_under_status(bet, Get(game))
        ELSE "pending"

determine_bet_status(bet, coin) ==
    LET game == GameOf(bet)
    IN  IF game = None \/ Get(game).status # "finished" THEN "pending"
        ELSE IF Get(game).home_score = None \/ Get(game).away_score = None THEN "pending"
        ELSE IF bet.bet_type = "moneyline" THEN moneyline_status(bet, Get(game))
        ELSE IF bet.bet_type = "spread" THEN spread_status(bet, Get(game))
        ELSE IF bet.bet_type = "over_under" THEN over_under_status(bet, Get(game))
        ELSE IF bet.bet_type = "player_prop" THEN player_prop_status(bet, coin)
        ELSE "pending"

--------------------------------------------------------------------------
(* Parlay Aggregator: legs is the list of bet rows of one parlay *)

\* aggregation that tests for a lost leg before it tests for a pending one
determine_parlay_status_lost_first(legs) ==
    IF legs = <<>> THEN "pending"
    ELSE IF \E i \in DOMAIN legs : legs[i].status = "lost" THEN "lost"
    ELSE IF \E i \in DOMAIN legs : legs[i].status = "pending" THEN "pending"
    ELSE IF \E i \in DOMAIN legs : legs[i].status = "push" THEN "partially_won"
    ELSE "won"

determine_parlay_status(legs) ==
    IF legs = <<>> THEN "pending"
    ELSE IF \E i \in DOMAIN legs : legs[i].status = "pending" THEN "pending"
    ELSE LET has_push == \E i \in DOMAIN legs : legs[i].status = "push"
             all_won == \A i \in DOMAIN legs : legs[i].status = "won" \/ legs[i].status = "push"
         IN  IF all_won THEN (IF has_push THEN "partially_won" ELSE "won")
             ELSE "lost"

--------------------------------------------------------------------------
(* Odds lookup of create_parlay: the highest price over the game's quotes *)

QuotesOf(game_id) == {k \in DOMAIN odds : k[1] = game_id}

Best(prices) == IF prices = {} THEN None
                ELSE Some(CHOOSE m \in prices : \A x \in prices : x <= m)

PricesOf(game_id, field) ==
    {Get(odds[k][field]) : k \in {j \in QuotesOf(game_id) : odds[j][field] # None}}

PropPricesOf(game_id, player_id, prop_type, field) ==
    {player_props[k][field] :
        k \in {j \in DOMAIN player_props :
                 /\ <<j[1], j[2]>> \in QuotesOf(game_id)
                 /\ Some(j[3]) = player_id
                 /\ Some(j[4]) = prop_type}}

get_odds_for_bet(game_id, bet_type, selection, player_id, prop_type) ==
    IF QuotesOf(game_id) = {} THEN None
    ELSE IF bet_type = "moneyline" /\ selection = "home" THEN Best(PricesOf(game_id, "home_moneyline"))
    ELSE IF bet_type = "moneyline" /\ selection = "away" THEN Best(PricesOf(game_id, "away_moneyline"))
    ELSE IF bet_type = "spread" /\ selection = "home" THEN Best(PricesOf(game_id, "home_spread_odds"))
    ELSE IF bet_type = "spread" /\ selection = "away" THEN Best(PricesOf(game_id, "away_spread_odds"))
    ELSE IF bet_type = "over_under" /\ selection = "over" THEN Best(PricesOf(game_id, "over_odds"))
    ELSE IF bet_type = "over_under" /\ selection = "under" THEN Best(PricesOf(game_id, "under_odds"))
    ELSE IF bet_type = "player_prop" /\ player_id # None /\ prop_type # None /\ selection = "over"
         THEN Best(PropPricesOf(game_id, player_id, prop_type, "over_odds"))
    ELSE IF bet_type = "player_prop" /\ player_id # None /\ prop_type # None /\ selection = "under"
         THEN Best(PropPricesOf(game_id, player_id, prop_type, "under_odds"))
    ELSE None

(* One leg of bets_data with its price filled in; None when the lookup finds no
   price (or a price of 0, which `if odds_obj` takes for no price) *)
WithOdds(bd) ==
    IF bd.odds # None THEN Some(bd)
    ELSE LET odds_obj == get_odds_for_bet(bd.game_id, bd.bet_type, bd.selection,
                                           bd.player_id, bd.prop_type)
         IN  IF odds_obj # None /\ Get(odds_obj) # 0
             THEN Some([bd EXCEPT !.odds = odds_obj])
             ELSE None

NewBet(parlay_id, bd) ==
    [parlay_id |-> parlay_id, game_id |-> bd.game_id, bet_type |-> bd.bet_type,
     selection |-> bd.selection, odds |-> Get(bd.odds),
     player_id |-> IF bd.bet_type = "player_prop" THEN bd.player_id ELSE None,
     prop_type |-> IF bd.bet_type = "player_prop" THEN bd.prop_type ELSE None,
     status |-> "pending"]

--------------------------------------------------------------------------
(* ParlayService.create_parlay behind POST /parlays *)

NewParlay(name, stake, total_odds) ==
    [name |-> IF name = None THEN "Custom Parlay" ELSE Get(name),
     stake |-> stake,
     total_odds |-> total_odds,
     potential_payout |-> stake * total_odds,
     status |-> "pending"]

\* a creation that adds the parlay and each leg as it goes and keeps them when
\* a later leg has no price
create_parlay_outcome_adds_first(name, stake, bets_data) ==
    LET filled == [i \in DOMAIN bets_data |-> WithOdds(bets_data[i])]
        unpriced == {i \in DOMAIN filled : filled[i] = None}
        n == IF unpriced = {} THEN Len(filled)
             ELSE (CHOOSE i \in unpriced : \A j \in unpriced : i <= j) - 1
        legs == [i \in 1..n |-> Get(filled[i])]
        total_odds == Product([i \in DOMAIN legs |-> Get(legs[i].odds)])
        id == MaxId(parlays) + 1
    IN  [raised |-> unpriced # {},
         parlays |-> parlays @@ (id :> NewParlay(name, stake, total_odds)),
         bets |-> bets \o [i \in DOMAIN legs |-> NewBet(id, legs[i])]]

\* what one call leaves in the store, and whether it raised ValueError (a leg
\* without a price, found before anything is added)
create_parlay_outcome(name, stake, bets_data) ==
    LET filled == [i \in DOMAIN bets_data |-> WithOdds(bets_data[i])]
    IN  IF \E i \in DOMAIN filled : filled[i] = None
        THEN [raised |-> TRUE, parlays |-> parlays, bets |-> bets]
        ELSE LET legs == [i \in DOMAIN filled |-> Get(filled[i])]
                 total_odds == Product([i \in DOMAIN legs |-> Get(legs[i].odds)])
                 id == MaxId(parlays) + 1
             IN  [raised |-> FALSE,
                  parlays |-> parlays @@ (id :> NewParlay(name, stake, total_odds)),
                  bets |-> bets \o [i \in DOMAIN legs |-> NewBet(id, legs[i])]]

create_parlay(name, stake, bets_data) ==
    /\ MaxId(parlays) < MaxParlays
    /\ Len(bets) + Len(bets_data) <= MaxBets
    /\ LET outcome == create_parlay_outcome(name, stake, bets_data)
       IN  /\ parlays' = outcome.parlays
           /\ bets' = outcome.bets
           /\ UNCHANGED <<games, odds, player_props, evals, sessions>>

(* POST /parlays: the route handler around create_parlay.  Any exception, the
   ValueError of the service or the failure to render a leg whose game is not
   stored, is answered 500; the response of the request is kept in evals. *)
post_parlay(name, stake, bets_data) ==
    /\ MaxId(parlays) < MaxParlays
    /\ Len(bets) + Len(bets_data) <= MaxBets
    /\ Len(evals) < MaxEvals
    /\ LET outcome == create_parlay_outcome(name, stake, bets_data)
           unrendered == \E i \in DOMAIN bets_data : bets_data[i].game_id \notin DOMAIN games
           status_code == IF outcome.raised \/ unrendered THEN 500 ELSE 200
       IN  /\ parlays' = outcome.parlays
           /\ bets' = outcome.bets
           /\ evals' = Append(evals, [bets |-> bets_data, status_code |-> status_code])
           /\ UNCHANGED <<games, odds, player_props, sessions>>

\* an edit that stores the new stake and leaves the payout as it was
update_parlay_stale_payout(parlay_id, name, stake, status) ==
    IF parlay_id \notin DOMAIN parlays
    THEN UNCHANGED <<games, odds, player_props, parlays, bets, evals, sessions>>
    ELSE LET p0 == parlays[parlay_id]
             p1 == IF name # None THEN [p0 EXCEPT !.name = Get(name)] ELSE p0
             p2 == IF stake # None THEN [p1 EXCEPT !.stake = Get(stake)] ELSE p1
             p3 == IF status # None THEN [p2 EXCEPT !.status = Get(status)] ELSE p2
         IN  /\ parlays' = [parlays EXCEPT ![parlay_id] = p3]
             /\ UNCHANGED <<games, odds, player_props, bets, evals, sessions>>

(* PUT /parlays/{parlay_id} *)
update_parlay(parlay_id, name, stake, status) ==
    IF parlay_id \notin DOMAIN parlays
    THEN UNCHANGED <<games, odds, player_props, parlays, bets, evals, sessions>>
    ELSE LET p0 == parlays[parlay_id]
             p1 == IF name # None THEN [p0 EXCEPT !.name = Get(name)] ELSE p0
             p2 == IF stake # None
                   THEN [p1 EXCEPT !.stake = Get(stake),
                                   !.potential_payout = Get(stake) * p1.total_odds]
                   ELSE p1
             p3 == IF status # None THEN [p2 EXCEPT !.status = Get(status)] ELSE p2
         IN  /\ parlays' = [parlays EXCEPT ![parlay_id] = p3]
             /\ UNCHANGED <<games, odds, player_props, bets, evals, sessions>>

\* a deletion that removes the parlay row and leaves its bets
delete_parlay_keeps_bets(parlay_id) ==
    IF parlay_id \notin DOMAIN parlays
    THEN UNCHANGED <<games, odds, player_props, parlays, bets, evals, sessions>>
    ELSE /\ parlays' = [p \in DOMAIN parlays \ {parlay_id} |-> parlays[p]]
         /\ UNCHANGED <<games, odds, player_props, bets, evals, sessions>>

(* DELETE /parlays/{parlay_id} *)
delete_parlay(parlay_id) ==
    IF parlay_id \notin DOMAIN parlays
    THEN UNCHANGED <<games, odds, player_props, parlays, bets, evals, sessions>>
    ELSE /\ bets' = SelectSeq(bets, LAMBDA b : b.parlay_id # parlay_id)
         /\ parlays' = [p \in DOMAIN parlays \ {parlay_id} |-> parlays[p]]
         /\ UNCHANGED <<games, odds, player_props, evals, sessions>>

--------------------------------------------------------------------------
(* ParlayService.update_parlay_statuses: the sweep *)

\* a sweep query without the status filter
pending_parlays_all == DOMAIN parlays

pending_parlays == {p \in DOMAIN parlays : parlays[p].status = "pending"}

LegIdx(p) == {i \in DOMAIN bets : bets[i].parlay_id = p}

all_games_finished(p) ==
    \A i \in LegIdx(p) :
        /\ bets[i].game_id \in DOMAIN games
        /\ games[bets[i].game_id].status = "finished"

Evaluated == {p \in pending_parlays : all_games_finished(p)}

PropIdx == {i \in DOMAIN bets : bets[i].bet_type = "player_prop"}

CoinOf(coins, i) == IF i \in DOMAIN coins THEN coins[i] ELSE TRUE

SweptBets(coins) ==
    [i \in DOMAIN bets |->
        IF bets[i].parlay_id \in Evaluated
        THEN [bets[i] EXCEPT !.status = determine_bet_status(bets[i], CoinOf(coins, i))]
        ELSE bets[i]]

LegsOf(bs, p) == SelectSeq(bs, LAMBDA b : b.parlay_id = p)

SweptParlays(new_bets) ==
    [p \in DOMAIN parlays |->
        IF p \in Evaluated
        THEN [parlays[p] EXCEPT !.status = determine_parlay_status(LegsOf(new_bets, p))]
        ELSE parlays[p]]

updated_count == Cardinality(Evaluated)

update_parlay_statuses ==
    \E coins \in [PropIdx -> BOOLEAN] :
        /\ bets' = SweptBets(coins)
        /\ parlays' = SweptParlays(bets')
        /\ UNCHANGED <<games, odds, player_props, evals, sessions>>

--------------------------------------------------------------------------
(* SportsbookService.refresh_games: feed is what _fetch_games returned, the
   provider's data.  Every team the feed names is among those that
   _ensure_teams_exist has stored, so no game of the feed is skipped. *)

RECURSIVE ApplyFeed(_, _)
ApplyFeed(gs, feed) ==
    IF feed = <<>> THEN gs
    ELSE LET game_data == Head(feed)
             found == {g \in DOMAIN gs : gs[g].external_id = game_data.external_id}
         IN  IF found # {}
             THEN LET g == CHOOSE m \in found : \A k \in found : m <= k
                  IN  ApplyFeed([gs EXCEPT ![g] = GameRow(game_data.external_id, game_data.status,
                                                          game_data.home_score, game_data.away_score)],
                                Tail(feed))
             ELSE ApplyFeed(gs @@ (MaxId(gs) + 1 :>
                                     GameRow(game_data.external_id, game_data.status,
                                             game_data.home_score, game_data.away_score)),
                            Tail(feed))

refresh_games(feed) ==
    /\ games' = ApplyFeed(games, feed)
    /\ UNCHANGED <<odds, player_props, parlays, bets, evals, sessions>>

(* SportsbookService.refresh_odds_for_game: fetched[b] is what book b's fetch
   returned, None (no API key, or no odds available) or a quote *)
Upsert(od, game_id, fetched) ==
    [k \in DOMAIN od \cup {<<game_id, b>> : b \in {c \in Books : fetched[c] # None}} |->
        IF k[1] = game_id /\ fetched[k[2]] # None THEN Get(fetched[k[2]]) ELSE od[k]]

refresh_odds_for_game(game_id, fetched) ==
    IF game_id \notin DOMAIN games
    THEN UNCHANGED <<games, odds, player_props, parlays, bets, evals, sessions>>
    ELSE /\ odds' = Upsert(odds, game_id, fetched)
         /\ UNCHANGED <<games, player_props, parlays, bets, evals, sessions>>

--------------------------------------------------------------------------
(* Inputs of the handlers *)

GameIds == {1, 2}
QuotedGames == {2}

FeedItem(ext, st, hs, as) ==
    [external_id |-> ext, status |-> st, home_score |-> hs, away_score |-> as]

Scheduled(ext) == FeedItem(ext, "scheduled", None, None)
Final(ext, hs, as) == FeedItem(ext, "finished", Some(hs), Some(as))
FinalNoScores(ext) == FeedItem(ext, "finished", None, None)

\* what the provider may report for the two games of the schedule
Feeds ==
    { <<Scheduled("NHL1"), Scheduled("NHL2")>>,
      <<Final("NHL1", 2, 1), Scheduled("NHL2")>>,
      <<Final("NHL1", 2, 1), FinalNoScores("NHL2")>>,
      <<Final("NHL1", 2, 1), Final("NHL2", 2, 1)>>,
      <<Final("NHL1", 1, 2), Final("NHL2", 2, 1)>> }

\* home spread -1.0, away spread +1.0, no total line
FeedQuote == Quote(Some(2), Some(3), Some(-2), Some(2), Some(2), Some(2), None, None, None)

\* one of the two books answers, the other has no odds available
Fetches == { [b \in Books |-> IF b = answering THEN Some(FeedQuote) ELSE None] :
             answering \in Books }

BetTemplates ==
    { BetData(1, "moneyline", "home", Some(2), None, None),
      BetData(2, "spread", "home", None, None, None),
      BetData(1, "player_prop", "over", Some(3), Some(1), Some("points")) }

BetsDataInputs == SeqsUpTo(BetTemplates, MaxLegs)

UpdateInputs ==
    { <<Some("A"), Some(2), None>>,
      <<None, None, Some("won")>>,
      <<None, None, Some("pending")>> }

ParlayIds == 1..MaxParlays

--------------------------------------------------------------------------
(* The application: an empty store, then any handler at any time *)

Init ==
    /\ games = <<>>
    /\ odds = <<>>
    /\ player_props = <<>>
    /\ parlays = <<>>
    /\ bets = <<>>
    /\ evals = <<>>
    /\ sessions = <<>>

CreateParlay == \E bets_data \in BetsDataInputs : create_parlay(None, 1, bets_data)

UpdateParlay == \E parlay_id \in ParlayIds, u \in UpdateInputs :
                    update_parlay(parlay_id, u[1], u[2], u[3])

DeleteParlay == \E parlay_id \in ParlayIds : delete_parlay(parlay_id)

Sweep == update_parlay_statuses

RefreshGames == \E feed \in Feeds : refresh_games(feed)

RefreshOdds == \E game_id \in QuotedGames, fetched \in Fetches : refresh_odds_for_game(game_id, fetched)

Next ==
    \/ CreateParlay
    \/ UpdateParlay
    \/ DeleteParlay
    \/ Sweep
    \/ RefreshGames
    \/ RefreshOdds

Spec == Init /\ [][Next]_vars

(* AIService.optimize_parlay behind POST /analysis/parlay/optimize.
   parlay_data is what the language model, or the built-in mock response,
   states: a name, a total price and the legs with their prices.  The game
   window of the query is taken to hold every scheduled game. *)
optimize_parlay(stake, parlay_data) ==
    /\ MaxId(parlays) < MaxParlays
    /\ Len(bets) + Len(parlay_data.bets) <= MaxBets
    /\ IF ~\E g \in DOMAIN games : games[g].status = "scheduled"
       THEN \* ValueError("No upcoming games found"): HTTP 500
            UNCHANGED <<games, odds, player_props, parlays, bets, evals, sessions>>
       ELSE LET id == MaxId(parlays) + 1
                parlay == [name |-> parlay_data.name,
                           stake |-> stake,
                           total_odds |-> parlay_data.total_odds,
                           potential_payout |-> stake * parlay_data.total_odds,
                           status |-> "pending"]
            IN  /\ parlays' = parlays @@ (id :> parlay)
                /\ bets' = bets \o [i \in DOMAIN parlay_data.bets |->
                                       NewBet(id, parlay_data.bets[i])]
                /\ UNCHANGED <<games, odds, player_props, evals, sessions>>

ResponseLegs ==
    << BetData(1, "moneyline", "home", Some(2), None, None),
       BetData(2, "over_under", "under", Some(3), None, None) >>

\* a response whose stated total is the product of its leg prices, and one
\* whose stated total is not (the mock response states 6.25 for legs priced
\* 1.75, 1.91 and 1.87, whose product is 6.250475)
ParlayResponses ==
    { [name |-> "AI", total_odds |-> 6, bets |-> ResponseLegs],
      [name |-> "AI", total_odds |-> 7, bets |-> ResponseLegs] }

OptimizeParlay == \E parlay_data \in ParlayResponses : optimize_parlay(1, parlay_data)

\* requests that state the price of every leg
PricedBets ==
    { <<>>,
      << BetData(1, "moneyline", "home", Some(2), None, None) >>,
      << BetData(1, "moneyline", "away", Some(2), None, None),
         BetData(2, "moneyline", "home", Some(3), None, None) >> }

CreatePricedParlay == \E bets_data \in PricedBets : create_parlay(None, 1, bets_data)

(* Creation, optimisation, editing and settlement, without deletion *)
NextLedger ==
    \/ CreatePricedParlay
    \/ OptimizeParlay
    \/ UpdateParlay
    \/ Sweep
    \/ RefreshGames

SpecLedger == Init /\ [][NextLedger]_vars

\* requests with player-prop legs, with and without the player id and the
\* prop category, with and without a stated price
PropBets ==
    { << BetData(1, "player_prop", "over", Some(3), Some(1), Some("points")) >>,
      << BetData(1, "player_prop", "over", Some(3), None, None) >>,
      << BetData(1, "player_prop", "over", Some(3), Some(1), None) >>,
      << BetData(1, "player_prop", "over", None, None, None) >>,
      << BetData(1, "moneyline", "home", Some(2), None, None),
         BetData(1, "player_prop", "under", Some(3), None, Some("points")) >> }

CreatePropParlay == \E bets_data \in PropBets : create_parlay(None, 1, bets_data)

(* Construction and settlement of parlays with player-prop legs *)
NextShape ==
    \/ CreatePropParlay
    \/ Sweep
    \/ RefreshGames
    \/ RefreshOdds

SpecShape == Init /\ [][NextShape]_vars

(* The same application with clients that always send at least one leg *)
CreateParlayWithLegs ==
    \E bets_data \in BetsDataInputs \ {<<>>} : create_parlay(None, 1, bets_data)

NextEdit ==
    \/ CreateParlayWithLegs
    \/ UpdateParlay
    \/ DeleteParlay
    \/ Sweep
    \/ RefreshGames
    \/ RefreshOdds

SpecEdit == Init /\ [][NextEdit]_vars

(* Settlement alone: parlays are created and swept while the provider's game
   and odds data change; no parlay is edited or deleted *)
NextSettle ==
    \/ CreateParlayWithLegs
    \/ Sweep
    \/ RefreshGames
    \/ RefreshOdds

SpecSettle == Init /\ [][NextSettle]_vars

--------------------------------------------------------------------------
(* The evaluator on its own: a store holding one game (or none), its quotes
   and one pending parlay of two legs of the same bet type; each step is one
   call of _determine_bet_status on a leg, its return value kept in evals. *)

Scores == 0..MaxScore
HomeLines == {-3, -2}     \* -1.5, -1.0
AwayLines == {2, 3}       \* +1.0, +1.5
TotalLines == {5, 6}      \* 2.5, 3.0

EvalGames ==
    {<<>>} \cup
    { (1 :> GameRow("NHL1", st, hs, as)) :
        st \in {"scheduled", "finished"}, hs \in Opt(Scores), as \in Opt(Scores) }

EvalQuotes ==
    { Quote(Some(2), Some(3), hsp, asp, Some(2), Some(2), ou, Some(2), Some(2)) :
        hsp \in Opt(HomeLines), asp \in Opt(AwayLines), ou \in Opt(TotalLines) }

\* a quote of the other book, with every line populated
EvalOtherQuote ==
    Quote(Some(2), Some(3), Some(-2), Some(2), Some(2), Some(2), Some(5), Some(2), Some(2))

EvalOdds ==
    { ref @@ oth :
        ref \in {<<>>} \cup { (<<1, ReferenceBook>> :> q) : q \in EvalQuotes },
        oth \in {<<>>, (<<1, "FanDuel">> :> EvalOtherQuote)} }

EvalPairs ==
    { <<"moneyline", "home", "away">>,
      <<"spread", "home", "away">>,
      <<"over_under", "over", "under">>,
      <<"player_prop", "over", "under">>,
      <<"over/under", "over", "under">>,
      <<"player prop", "over", "under">>,
      <<"moneyline", "over", "under">>,
      <<"player_prop", "home", "away">> }

EvalLeg(bet_type, selection) ==
    NewBet(1, BetData(1, bet_type, selection, Some(2),
                      IF bet_type = "player_prop" THEN Some(1) ELSE None,
                      IF bet_type = "player_prop" THEN Some("points") ELSE None))

PendingParlay(total_odds) ==
    [name |-> "Custom Parlay", stake |-> 1, total_odds |-> total_odds,
     potential_payout |-> total_odds, status |-> "pending"]

InitEval ==
    /\ games \in EvalGames
    /\ odds \in EvalOdds
    /\ player_props = <<>>
    /\ parlays = (1 :> PendingParlay(4))
    /\ bets \in { <<EvalLeg(pr[1], pr[2]), EvalLeg(pr[1], pr[3])>> : pr \in EvalPairs }
    /\ evals = <<>>
    /\ sessions = <<>>

evaluate_bet(i, coin) ==
    /\ Len(evals) < MaxEvals
    /\ evals' = Append(evals, [leg |-> i, status |-> determine_bet_status(bets[i], coin)])
    /\ UNCHANGED <<games, odds, player_props, parlays, bets, sessions>>

NextEval == \E i \in DOMAIN bets, coin \in BOOLEAN : evaluate_bet(i, coin)

SpecEval == InitEval /\ [][NextEval]_vars

--------------------------------------------------------------------------
(* The aggregator on its own: the legs of one pending parlay as the sweep
   holds them between assigning the leg statuses and folding them; the step
   is one call of _determine_parlay_status. *)

AggLeg(status) == [EvalLeg("moneyline", "home") EXCEPT !.status = status]

InitAgg ==
    /\ games = <<>>
    /\ odds = <<>>
    /\ player_props = <<>>
    /\ parlays = (1 :> PendingParlay(2))
    /\ bets \in { [i \in DOMAIN st |-> AggLeg(st[i])] :
                    st \in SeqsUpTo(BetStatuses, MaxAggLegs) \ {<<>>} }
    /\ evals = <<>>
    /\ sessions = <<>>

aggregate ==
    /\ evals = <<>>
    /\ evals' = <<[leg |-> 0, status |-> determine_parlay_status(bets)]>>
    /\ UNCHANGED <<games, odds, player_props, parlays, bets, sessions>>

NextAgg == aggregate

SpecAgg == InitAgg /\ [][NextAgg]_vars

--------------------------------------------------------------------------
(* GET /odds/best: best price per market over the game's quotes.  The query
   has no ORDER BY, so the quotes are scanned in any order. *)

BestSlot(line, price, sportsbook) ==
    [line |-> line, odds |-> price, sportsbook |-> sportsbook]

EmptySlot == BestSlot(None, None, None)

\* moneyline scan that keeps the lowest price
RECURSIVE BestMoneyline_lowest(_, _, _)
BestMoneyline_lowest(order, field, best) ==
    IF order = <<>> THEN best
    ELSE LET q == odds[Head(order)]
             take == /\ q[field] # None
                     /\ (best.odds = None \/ Get(q[field]) < Get(best.odds))
         IN  BestMoneyline_lowest(Tail(order), field,
                 IF take THEN BestSlot(None, q[field], Some(Head(order)[2])) ELSE best)

RECURSIVE BestMoneyline(_, _, _)
BestMoneyline(order, field, best) ==
    IF order = <<>> THEN best
    ELSE LET q == odds[Head(order)]
             take == /\ q[field] # None
                     /\ (best.odds = None \/ Get(q[field]) > Get(best.odds))
         IN  BestMoneyline(Tail(order), field,
                 IF take THEN BestSlot(None, q[field], Some(Head(order)[2])) ELSE best)

\* line scan that prefers the higher price whatever the line
RECURSIVE BestLine_price_first(_, _, _, _, _)
BestLine_price_first(order, line_field, price_field, lower_wins, best) ==
    IF order = <<>> THEN best
    ELSE LET q == odds[Head(order)]
             take == /\ q[line_field] # None
                     /\ q[price_field] # None
                     /\ \/ best.line = None
                        \/ Get(q[price_field]) > Get(best.odds)
         IN  BestLine_price_first(Tail(order), line_field, price_field, lower_wins,
                 IF take THEN BestSlot(q[line_field], q[price_field], Some(Head(order)[2]))
                 ELSE best)

RECURSIVE BestLine(_, _, _, _, _)
BestLine(order, line_field, price_field, lower_wins, best) ==
    IF order = <<>> THEN best
    ELSE LET q == odds[Head(order)]
             take == /\ q[line_field] # None
                     /\ q[price_field] # None
                     /\ \/ best.line = None
                        \/ /\ Get(q[line_field]) = Get(best.line)
                           /\ Get(q[price_field]) > Get(best.odds)
                        \/ IF lower_wins THEN Get(q[line_field]) < Get(best.line)
                           ELSE Get(q[line_field]) > Get(best.line)
         IN  BestLine(Tail(order), line_field, price_field, lower_wins,
                 IF take THEN BestSlot(q[line_field], q[price_field], Some(Head(order)[2]))
                 ELSE best)

BestResponse(status_code, best_odds) ==
    [status_code |-> status_code, best_odds |-> best_odds]

\* order: the rows of the game's quotes as the query returns them
get_best_odds(game_id, order) ==
    IF order = <<>> THEN BestResponse(404, None)
    ELSE IF game_id \notin DOMAIN games THEN BestResponse(404, None)
    ELSE BestResponse(200, Some(
           [home_moneyline |-> BestMoneyline(order, "home_moneyline", EmptySlot),
            away_moneyline |-> BestMoneyline(order, "away_moneyline", EmptySlot),
            home_spread |-> BestLine(order, "home_spread", "home_spread_odds", FALSE, EmptySlot),
            away_spread |-> BestLine(order, "away_spread", "away_spread_odds", FALSE, EmptySlot),
            over |-> BestLine(order, "over_under", "over_odds", TRUE, EmptySlot),
            under |-> BestLine(order, "over_under", "under_odds", FALSE, EmptySlot)]))

\* the orders in which the rows of a game's quotes can come back
RowOrders(game_id) ==
    {o \in SeqsUpTo(QuotesOf(game_id), Cardinality(QuotesOf(game_id))) :
        /\ Len(o) = Cardinality(QuotesOf(game_id))
        /\ \A i, j \in DOMAIN o : i # j => o[i] # o[j]}

\* market parts of a quote: prices are signed, totals are in half-points
MoneylineParts ==
    {<<None, None>>, <<Some(2), Some(-2)>>, <<Some(3), Some(-3)>>, <<Some(-2), Some(3)>>}

SpreadParts ==
    {<<None, None, None, None>>,
     <<Some(-3), Some(3), Some(-2), Some(-2)>>,
     <<Some(-3), Some(3), Some(-1), Some(-2)>>,
     <<Some(-2), Some(2), Some(-2), Some(-1)>>,
     <<Some(-1), Some(4), None, Some(-1)>>}

TotalParts ==
    {<<None, None, None>>,
     <<Some(11), Some(-2), Some(-2)>>,
     <<Some(11), Some(-1), Some(-2)>>,
     <<Some(12), Some(-2), Some(-1)>>,
     <<Some(10), None, Some(-1)>>}

BestQuotes ==
    { Quote(m[1], m[2], s[1], s[2], s[3], s[4], t[1], t[2], t[3]) :
        m \in MoneylineParts, s \in SpreadParts, t \in TotalParts }

BookQuotes(book) == {<<>>} \cup { (<<1, book>> :> q) : q \in BestQuotes }

InitBest ==
    /\ \/ /\ games = <<>>
          /\ odds = <<>>
       \/ /\ games = (1 :> GameRow("NHL1", "scheduled", None, None))
          /\ odds \in { a @@ b : a \in BookQuotes("DraftKings"), b \in BookQuotes("FanDuel") }
    /\ player_props = <<>>
    /\ parlays = <<>>
    /\ bets = <<>>
    /\ evals = <<>>
    /\ sessions = <<>>

best_odds_request(game_id, order) ==
    /\ evals' = <<[game_id |-> game_id, response |-> get_best_odds(game_id, order)]>>
    /\ UNCHANGED <<games, odds, player_props, parlays, bets, sessions>>

NextBest ==
    \E game_id \in GameIds :
        \E order \in RowOrders(game_id) : best_odds_request(game_id, order)

SpecBest == InitBest /\ [][NextBest]_vars

--------------------------------------------------------------------------
(* Two sweep requests, each on a database session of its own (get_db).  A
   session keeps the parlay rows that its query for pending parlays
   returned; the bets and games of each of them are queried when the loop
   reaches it, and all writes become visible at the commit.  ready and left
   record what the session evaluated and which parlays its commit moved out
   of pending in the store. *)

SessionIds == {1, 2}

IdleSession == [pc |-> "idle", seen |-> {}, ready |-> {}, left |-> {}, count |-> 0]

InitRace ==
    /\ games = <<>>
    /\ odds = <<>>
    /\ player_props = <<>>
    /\ parlays = <<>>
    /\ bets = <<>>
    /\ evals = <<>>
    /\ sessions = [s \in SessionIds |-> IdleSession]

\* line 109: the rows with status pending, as loaded into the session
sweep_query(s) ==
    /\ sessions[s].pc = "idle"
    /\ sessions' = [sessions EXCEPT ![s].pc = "read", ![s].seen = pending_parlays]
    /\ UNCHANGED <<games, odds, player_props, parlays, bets, evals>>

\* the loaded parlays whose games are all finished when the loop reaches them
ready_parlays(seen) == {p \in seen : all_games_finished(p)}

\* a count that skips the parlays another session has settled meanwhile
session_count_still_pending(seen) ==
    Cardinality({p \in ready_parlays(seen) : parlays[p].status = "pending"})

session_count(seen) == Cardinality(ready_parlays(seen))

SweptBetsOf(E, coins) ==
    [i \in DOMAIN bets |->
        IF bets[i].parlay_id \in E
        THEN [bets[i] EXCEPT !.status = determine_bet_status(bets[i], CoinOf(coins, i))]
        ELSE bets[i]]

SweptParlaysOf(E, new_bets) ==
    [p \in DOMAIN parlays |->
        IF p \in E
        THEN [parlays[p] EXCEPT !.status = determine_parlay_status(LegsOf(new_bets, p))]
        ELSE parlays[p]]

\* lines 112-138: the loop over the loaded parlays, the commit and the return
sweep_commit(s) ==
    /\ sessions[s].pc = "read"
    /\ \E coins \in [PropIdx -> BOOLEAN] :
          LET E == ready_parlays(sessions[s].seen)
          IN  /\ bets' = SweptBetsOf(E, coins)
              /\ parlays' = SweptParlaysOf(E, bets')
              /\ sessions' = [sessions EXCEPT
                     ![s].pc = "done",
                     ![s].ready = E,
                     ![s].left = {p \in E : /\ parlays[p].status = "pending"
                                            /\ parlays'[p].status # "pending"},
                     ![s].count = session_count(sessions[s].seen)]
    /\ UNCHANGED <<games, odds, player_props, evals>>

SweepQuery == \E s \in SessionIds : sweep_query(s)

SweepCommit == \E s \in SessionIds : sweep_commit(s)

NextRace ==
    \/ CreatePricedParlay
    \/ RefreshGames
    \/ SweepQuery
    \/ SweepCommit

SpecRace == InitRace /\ [][NextRace]_vars

--------------------------------------------------------------------------
(* Dispatch of a request by the parlay router.  The routes are tried in the
   order of their registration; the first whose method and path pattern
   match takes the request.  A path parameter matches any one segment; the
   declared type of the parameter (int) is validated after the match, and a
   segment that is no integer is answered 422 without calling the handler. *)

Route(method, pattern, handler) ==
    [method |-> method, pattern |-> pattern, handler |-> handler]

ParlayRoutes ==
    << Route("GET", <<"parlays">>, "get_parlays"),
       Route("GET", <<"parlays", "{parlay_id}">>, "get_parlay"),
       Route("POST", <<"parlays">>, "create_parlay"),
       Route("PUT", <<"parlays", "{parlay_id}">>, "update_parlay"),
       Route("DELETE", <<"parlays", "{parlay_id}">>, "delete_parlay"),
       Route("GET", <<"parlays", "update-status">>, "update_parlay_statuses") >>

IsParam(segment) == segment = "{parlay_id}"

IsInt(segment) == segment \in {"1", "2"}

ToInt(segment) == IF segment = "1" THEN 1 ELSE 2

PathMatches(pattern, path) ==
    /\ Len(pattern) = Len(path)
    /\ \A i \in DOMAIN pattern : IsParam(pattern[i]) \/ pattern[i] = path[i]

Matching(routes, method, path) ==
    {i \in DOMAIN routes : routes[i].method = method /\ PathMatches(routes[i].pattern, path)}

Dispatched(method, path, route, status_code, ran) ==
    [method |-> method, path |-> path, route |-> route,
     status_code |-> status_code, ran |-> ran]

dispatch(routes, method, path) ==
    LET m == Matching(routes, method, path)
    IN  IF m = {} THEN Dispatched(method, path, None, 404, None)
        ELSE LET i == CHOOSE k \in m : \A j \in m : k <= j
                 r == routes[i]
                 bad == \E n \in DOMAIN r.pattern : IsParam(r.pattern[n]) /\ ~IsInt(path[n])
             IN  IF bad THEN Dispatched(method, path, Some(r.handler), 422, None)
                 ELSE Dispatched(method, path, Some(r.handler), 200, Some(r.handler))

GetPaths ==
    { <<"parlays">>, <<"parlays", "1">>, <<"parlays", "2">>,
      <<"parlays", "update-status">>, <<"parlays", "1", "legs">> }

\* a GET request: the handlers get_parlays and get_parlay only read; the
\* handler update_parlay_statuses runs the sweep
http_get(path) ==
    /\ Len(evals) < MaxEvals
    /\ LET d == dispatch(ParlayRoutes, "GET", path)
           missing == d.ran = Some("get_parlay") /\ ToInt(path[2]) \notin DOMAIN parlays
       IN  /\ evals' = Append(evals, IF missing THEN [d EXCEPT !.status_code = 404] ELSE d)
           /\ IF d.ran = Some("update_parlay_statuses")
              THEN \E coins \in [PropIdx -> BOOLEAN] :
                      /\ bets' = SweptBets(coins)
                      /\ parlays' = SweptParlays(bets')
              ELSE UNCHANGED <<parlays, bets>>
    /\ UNCHANGED <<games, odds, player_props, sessions>>

HttpGet == \E path \in GetPaths : http_get(path)

NextRoute ==
    \/ CreatePricedParlay
    \/ RefreshGames
    \/ HttpGet

SpecRoute == Init /\ [][NextRoute]_vars

--------------------------------------------------------------------------
(* Creation over HTTP while the provider's games and odds arrive: the
   requests hold a leg with a stated price, a spread leg whose price is to be
   looked up, or the first followed by the second. *)

PostedBets ==
    { <<BetData(1, "moneyline", "home", Some(2), None, None)>>,
      <<BetData(2, "spread", "home", None, None, None)>>,
      <<BetData(1, "moneyline", "home", Some(2), None, None),
        BetData(2, "spread", "home", None, None, None)>> }

PostParlay == \E bets_data \in PostedBets : post_parlay(None, 1, bets_data)

NextPost ==
    \/ PostParlay
    \/ RefreshGames
    \/ RefreshOdds

SpecPost == Init /\ [][NextPost]_vars

--------------------------------------------------------------------------
(* The life of a parlay: created with stated prices, edited, swept as the
   games finish, deleted. *)

NextCrud ==
    \/ CreatePricedParlay
    \/ UpdateParlay
    \/ DeleteParlay
    \/ Sweep
    \/ RefreshGames

SpecCrud == Init /\ [][NextCrud]_vars

--------------------------------------------------------------------------
(* Properties *)

StatusSet(legs) == {legs[i].status : i \in DOMAIN legs}

\* the aggregate status the data model prescribes for a set of leg statuses
PrescribedStatus(S) ==
    IF "pending" \in S THEN "pending"
    ELSE IF "lost" \in S THEN "lost"
    ELSE IF S \subseteq {"won"} THEN "won"
    ELSE "partially_won"

FinishedWithScores(game_id) ==
    /\ game_id \in DOMAIN games
    /\ games[game_id].status = "finished"
    /\ games[game_id].home_score # None
    /\ games[game_id].away_score # None

HomeScore(game_id) == Get(games[game_id].home_score)
AwayScore(game_id) == Get(games[game_id].away_score)

\* the statuses the evaluator has returned for leg i
Returned(i) == {evals[k].status : k \in {j \in DOMAIN evals : evals[j].leg = i}}

\* C1: every stored parlay is pending iff one of its legs is pending, and
\* otherwise lost if a leg is lost, else won if all legs are won, else
\* partially_won.
C1_ParlayStatusInvariant ==
    \A p \in DOMAIN parlays :
        /\ parlays[p].status = "pending" <=> "pending" \in StatusSet(LegsOf(bets, p))
        /\ parlays[p].status = PrescribedStatus(StatusSet(LegsOf(bets, p)))

\* C2: _determine_parlay_status returns pending if any leg is pending, else
\* lost if any is lost, else won if all are won, else partially_won, whatever
\* the order of the legs.
C2_AggregateRule ==
    evals # <<>> =>
        /\ evals[1].status = PrescribedStatus(StatusSet(bets))
        /\ \A f \in Permutations(DOMAIN bets) :
               determine_parlay_status([i \in DOMAIN bets |-> bets[f[i]]]) = evals[1].status

C2_Witness ==
    /\ evals # <<>>
    /\ Len(bets) >= 2
    /\ \A i \in DOMAIN bets : bets[i].status = "push"
    /\ evals[1].status = "partially_won"

\* a sweep from this state would leave every bet and every parlay as it is
SweepChangesNothing ==
    \A coins \in [PropIdx -> BOOLEAN] :
        /\ SweptBets(coins) = bets
        /\ SweptParlays(SweptBets(coins)) = parlays

\* C3: a sweep that directly follows a sweep changes no bet status and no
\* parlay status.
C3_SweepIdempotent == [][update_parlay_statuses => SweepChangesNothing']_vars

\* C4: the number a sweep returns is the number of parlays that were pending
\* before it and are not pending after it.
C4_CountIsTransitions ==
    [][update_parlay_statuses =>
         updated_count = Cardinality({p \in DOMAIN parlays :
                                         /\ parlays[p].status = "pending"
                                         /\ parlays'[p].status # "pending"})]_vars

HasUnresolvedGame(p) ==
    \E i \in LegIdx(p) : ~FinishedWithScores(bets[i].game_id)

\* C5: a sweep leaves a pending parlay and all of its legs unchanged when one
\* of its legs references a game that is missing, not finished, or finished
\* without both scores.
C5_AllOrNothing ==
    [][update_parlay_statuses =>
         \A p \in pending_parlays :
             HasUnresolvedGame(p) =>
                 /\ parlays'[p].status = parlays[p].status
                 /\ \A i \in LegIdx(p) : bets'[i].status = bets[i].status]_vars

\* C6: a leg that a sweep finds won, lost or push keeps that status.
C6_ResolvedIsTerminal ==
    [][update_parlay_statuses =>
         \A i \in DOMAIN bets :
             bets[i].status \in Resolved => bets'[i].status = bets[i].status]_vars

\* C7: two evaluations of the same bet against the same game and odds data
\* return the same status.
C7_EvaluationDeterministic ==
    \A j, k \in DOMAIN evals :
        evals[j].leg = evals[k].leg => evals[j].status = evals[k].status

\* C8: the evaluation of a player_prop leg, for which no player statistic is
\* supplied, returns pending.
C8_PropStaysPending ==
    \A k \in DOMAIN evals :
        bets[evals[k].leg].bet_type = "player_prop" => evals[k].status = "pending"

\* C9: on a finished game with both scores a moneyline leg is won when the
\* selected side's score strictly exceeds the other's and lost otherwise;
\* with different scores exactly one of the home and away legs is won, with
\* equal scores both are lost.
C9_Moneyline ==
    /\ \A k \in DOMAIN evals :
           LET b == bets[evals[k].leg]
           IN  (/\ b.bet_type = "moneyline"
                /\ b.selection \in {"home", "away"}
                /\ FinishedWithScores(b.game_id)) =>
                   LET mine == IF b.selection = "home" THEN HomeScore(b.game_id)
                               ELSE AwayScore(b.game_id)
                       theirs == IF b.selection = "home" THEN AwayScore(b.game_id)
                                 ELSE HomeScore(b.game_id)
                   IN  evals[k].status = IF mine > theirs THEN "won" ELSE "lost"
    /\ (/\ bets[1].bet_type = "moneyline" /\ bets[1].selection = "home"
        /\ bets[2].bet_type = "moneyline" /\ bets[2].selection = "away"
        /\ FinishedWithScores(1)) =>
           \A s1 \in Returned(1), s2 \in Returned(2) :
               IF HomeScore(1) # AwayScore(1)
               THEN (s1 = "won") # (s2 = "won")
               ELSE s1 = "lost" /\ s2 = "lost"

C9_Witness ==
    /\ bets[1].bet_type = "moneyline" /\ bets[2].bet_type = "moneyline"
    /\ FinishedWithScores(1)
    /\ HomeScore(1) = AwayScore(1)
    /\ Returned(1) = {"lost"}
    /\ Returned(2) = {"lost"}

HasLine(game_id, field) ==
    /\ <<game_id, ReferenceBook>> \in DOMAIN odds
    /\ odds[<<game_id, ReferenceBook>>][field] # None

Line(game_id, field) == Get(odds[<<game_id, ReferenceBook>>][field])

\* C10: on a finished game with a reference quote a spread leg is won, lost or
\* push as selected score + spread is above, below or equal to the opponent's
\* score; with away_spread = -home_spread the home leg pushes iff the away
\* leg does.
C10_Spread ==
    /\ \A k \in DOMAIN evals :
           LET b == bets[evals[k].leg]
               field == IF b.selection = "home" THEN "home_spread" ELSE "away_spread"
           IN  (/\ b.bet_type = "spread"
                /\ b.selection \in {"home", "away"}
                /\ FinishedWithScores(b.game_id)
                /\ HasLine(b.game_id, field)) =>
                   LET mine == IF b.selection = "home" THEN HomeScore(b.game_id)
                               ELSE AwayScore(b.game_id)
                       theirs == IF b.selection = "home" THEN AwayScore(b.game_id)
                                 ELSE HomeScore(b.game_id)
                       adjusted == 2 * mine + Line(b.game_id, field)
                   IN  evals[k].status = IF adjusted > 2 * theirs THEN "won"
                                         ELSE IF adjusted < 2 * theirs THEN "lost"
                                         ELSE "push"
    /\ (/\ bets[1].bet_type = "spread" /\ bets[1].selection = "home"
        /\ bets[2].bet_type = "spread" /\ bets[2].selection = "away"
        /\ FinishedWithScores(1)
        /\ HasLine(1, "home_spread") /\ HasLine(1, "away_spread")
        /\ Line(1, "away_spread") = -Line(1, "home_spread")) =>
           \A s1 \in Returned(1), s2 \in Returned(2) : (s1 = "push") <=> (s2 = "push")

C10_Witness ==
    /\ bets[1].bet_type = "spread" /\ bets[2].bet_type = "spread"
    /\ FinishedWithScores(1)
    /\ HasLine(1, "home_spread") /\ HasLine(1, "away_spread")
    /\ Line(1, "away_spread") = -Line(1, "home_spread")
    /\ Returned(1) = {"push"}
    /\ Returned(2) = {"push"}

\* C11: on a finished game with a reference total the over and under legs are
\* never both won, exactly one of them is won when the score sum differs from
\* the total, and both are push iff the score sum equals the total.
C11_OverUnder ==
    (/\ bets[1].bet_type = "over_under" /\ bets[1].selection = "over"
     /\ bets[2].bet_type = "over_under" /\ bets[2].selection = "under"
     /\ FinishedWithScores(1)
     /\ HasLine(1, "over_under")) =>
        \A s1 \in Returned(1), s2 \in Returned(2) :
            LET sum2 == 2 * (HomeScore(1) + AwayScore(1))
            IN  /\ ~(s1 = "won" /\ s2 = "won")
                /\ sum2 # Line(1, "over_under") => (s1 = "won") # (s2 = "won")
                /\ (s1 = "push" /\ s2 = "push") <=> sum2 = Line(1, "over_under")

C11_Witness ==
    /\ bets[1].bet_type = "over_under" /\ bets[2].bet_type = "over_under"
    /\ FinishedWithScores(1)
    /\ HasLine(1, "over_under")
    /\ 2 * (HomeScore(1) + AwayScore(1)) = Line(1, "over_under")
    /\ Returned(1) = {"push"}
    /\ Returned(2) = {"push"}

\* C12: whatever the bet type, the evaluation returns pending when the game is
\* absent, is not finished, or lacks a final score.
C12_PendingWithoutResult ==
    \A k \in DOMAIN evals :
        ~FinishedWithScores(bets[evals[k].leg].game_id) => evals[k].status = "pending"

C12_Witness ==
    /\ bets[1].bet_type = "player_prop"
    /\ 1 \in DOMAIN games
    /\ games[1].status = "finished"
    /\ games[1].home_score = None
    /\ Returned(1) = {"pending"}

\* the line of the reference quote that grades a spread or total leg
RelevantLine(bet) ==
    IF bet.bet_type = "over_under" THEN "over_under"
    ELSE IF bet.selection = "home" THEN "home_spread"
    ELSE "away_spread"

\* C13: a spread or total leg on a finished game is pending when the game has
\* no DraftKings quote or that quote lacks the leg's line, even if another
\* book's quote carries the line.
C13_ReferenceBookOnly ==
    \A k \in DOMAIN evals :
        LET b == bets[evals[k].leg]
        IN  (/\ b.bet_type \in {"spread", "over_under"}
             /\ b.game_id \in DOMAIN games
             /\ games[b.game_id].status = "finished"
             /\ ~HasLine(b.game_id, RelevantLine(b))) =>
                evals[k].status = "pending"

C13_Witness ==
    /\ bets[1].bet_type = "spread" /\ bets[1].selection = "home"
    /\ FinishedWithScores(1)
    /\ <<1, ReferenceBook>> \notin DOMAIN odds
    /\ <<1, "FanDuel">> \in DOMAIN odds
    /\ odds[<<1, "FanDuel">>].home_spread # None
    /\ Returned(1) = {"pending"}

\* the 200 responses of GET /odds/best recorded for an existing game
Answered == {k \in DOMAIN evals : evals[k].response.status_code = 200}

Slot(k, market) == Get(evals[k].response.best_odds)[market]

\* C14: for home and away moneyline the best-odds response carries the
\* highest signed price among the game's quotes that populate the field, and
\* the sportsbook of a quote offering that price.
C14_BestMoneyline ==
    \A k \in Answered : \A field \in {"home_moneyline", "away_moneyline"} :
        LET g == evals[k].game_id
            prices == PricesOf(g, field)
            slot == Slot(k, field)
        IN  prices # {} =>
               /\ slot.odds # None
               /\ Get(slot.odds) \in prices
               /\ \A x \in prices : x <= Get(slot.odds)
               /\ slot.sportsbook # None
               /\ <<g, Get(slot.sportsbook)>> \in QuotesOf(g)
               /\ odds[<<g, Get(slot.sportsbook)>>][field] = slot.odds

C14_Witness ==
    /\ Answered # {}
    /\ <<1, "DraftKings">> \in DOMAIN odds /\ <<1, "FanDuel">> \in DOMAIN odds
    /\ odds[<<1, "DraftKings">>].home_moneyline = Some(2)
    /\ odds[<<1, "FanDuel">>].home_moneyline = Some(3)
    /\ Slot(1, "home_moneyline") = BestSlot(None, Some(3), Some("FanDuel"))

\* the quotes of game g that offer a line market: line and price both present
Offering(g, line_field, price_field) ==
    {q \in QuotesOf(g) : odds[q][line_field] # None /\ odds[q][price_field] # None}

\* slot is the quote of game g with the best line and, on that line, the
\* highest price
BestByLine(g, slot, line_field, price_field, lower_wins) ==
    LET offers == Offering(g, line_field, price_field)
    IN  offers # {} =>
           /\ slot.sportsbook # None
           /\ <<g, Get(slot.sportsbook)>> \in offers
           /\ odds[<<g, Get(slot.sportsbook)>>][line_field] = slot.line
           /\ odds[<<g, Get(slot.sportsbook)>>][price_field] = slot.odds
           /\ \A q \in offers :
                  /\ IF lower_wins THEN Get(slot.line) <= Get(odds[q][line_field])
                     ELSE Get(slot.line) >= Get(odds[q][line_field])
                  /\ odds[q][line_field] = slot.line =>
                         Get(odds[q][price_field]) <= Get(slot.odds)

\* C15: for the spread and total markets the best-odds response carries,
\* among the quotes that offer the market (line and price present), the
\* quote with the best line (largest home spread, largest away spread,
\* smallest total for over, largest total for under) and, among quotes on
\* that line, the highest price; line, price and sportsbook are one quote's.
C15_BestLineThenPrice ==
    \A k \in Answered :
        LET g == evals[k].game_id
        IN  /\ BestByLine(g, Slot(k, "home_spread"), "home_spread", "home_spread_odds", FALSE)
            /\ BestByLine(g, Slot(k, "away_spread"), "away_spread", "away_spread_odds", FALSE)
            /\ BestByLine(g, Slot(k, "over"), "over_under", "over_odds", TRUE)
            /\ BestByLine(g, Slot(k, "under"), "over_under", "under_odds", FALSE)

C15_Witness ==
    /\ Answered # {}
    /\ <<1, "DraftKings">> \in DOMAIN odds /\ <<1, "FanDuel">> \in DOMAIN odds
    /\ odds[<<1, "DraftKings">>].home_spread = Some(-3)
    /\ odds[<<1, "DraftKings">>].home_spread_odds = Some(-1)
    /\ odds[<<1, "FanDuel">>].home_spread = Some(-3)
    /\ odds[<<1, "FanDuel">>].home_spread_odds = Some(-2)
    /\ odds[<<1, "DraftKings">>].over_under = Some(12)
    /\ odds[<<1, "FanDuel">>].over_under = Some(11)
    /\ odds[<<1, "FanDuel">>].over_odds = Some(-2)
    /\ Slot(1, "home_spread") = BestSlot(Some(-3), Some(-1), Some("DraftKings"))
    /\ Slot(1, "over") = BestSlot(Some(11), Some(-2), Some("FanDuel"))
    /\ Slot(1, "under") = BestSlot(Some(12), Some(-1), Some("DraftKings"))

\* C16: for every existing game, also one without any quote, the best-odds
\* request answers with a result and not with an error.
C16_NeverFails ==
    \A k \in DOMAIN evals :
        evals[k].game_id \in DOMAIN games => evals[k].response.status_code = 200

\* C17: the total_odds of every stored parlay is the product of the odds of
\* its legs, for parlays of create_parlay and of optimize_parlay alike.
C17_TotalIsProduct ==
    \A p \in DOMAIN parlays :
        parlays[p].total_odds =
            Product([i \in DOMAIN LegsOf(bets, p) |-> LegsOf(bets, p)[i].odds])

\* C18: the potential_payout of every stored parlay is its stake times its
\* total_odds.
C18_PayoutIsStakeTimesTotal ==
    \A p \in DOMAIN parlays :
        parlays[p].potential_payout = parlays[p].stake * parlays[p].total_odds

C18_Witness ==
    \E p \in DOMAIN parlays :
        /\ parlays[p].name = "A"
        /\ parlays[p].stake = 2
        /\ parlays[p].total_odds > 1
        /\ parlays[p].status \in {"lost", "partially_won"}

\* C19: a sweep writes status fields only, and only those of pending parlays
\* and their legs: stake, total_odds, potential_payout and name of every
\* parlay, the odds of every bet, and the statuses of non-pending parlays and
\* of their legs stay as they were.
C19_SweepFrame ==
    [][update_parlay_statuses =>
         /\ DOMAIN parlays' = DOMAIN parlays
         /\ DOMAIN bets' = DOMAIN bets
         /\ \A p \in DOMAIN parlays :
                /\ parlays'[p].stake = parlays[p].stake
                /\ parlays'[p].total_odds = parlays[p].total_odds
                /\ parlays'[p].potential_payout = parlays[p].potential_payout
                /\ parlays'[p].name = parlays[p].name
                /\ parlays[p].status # "pending" =>
                       /\ parlays'[p].status = parlays[p].status
                       /\ \A i \in LegIdx(p) : bets'[i].status = bets[i].status
         /\ \A i \in DOMAIN bets : bets'[i].odds = bets[i].odds]_vars

\* a parlay settled by a sweep next to a non-pending parlay whose leg a sweep
\* would grade if it touched it
C19_Witness ==
    \E p, q \in DOMAIN parlays :
        /\ parlays[p].status = "lost"
        /\ parlays[q].status = "won"
        /\ \E i \in LegIdx(q) :
               /\ bets[i].status = "pending"
               /\ bets[i].bet_type = "moneyline"
               /\ FinishedWithScores(bets[i].game_id)

Settled == {"won", "lost", "partially_won"}

\* C20: update_parlay on a parlay that is won, lost or partially_won leaves
\* its stake, name and potential_payout as they were.
C20_SettledIsFrozen ==
    [][\A p \in DOMAIN parlays : \A u \in UpdateInputs :
          (parlays[p].status \in Settled /\ update_parlay(p, u[1], u[2], u[3])) =>
              /\ parlays'[p].stake = parlays[p].stake
              /\ parlays'[p].name = parlays[p].name
              /\ parlays'[p].potential_payout = parlays[p].potential_payout]_vars

\* C21: every stored parlay has at least one bet.
C21_AtLeastOneLeg ==
    \A p \in DOMAIN parlays : LegIdx(p) # {}

\* C22: no stored player_prop bet lacks its player id or its prop category.
C22_PropLegsAreComplete ==
    \A i \in DOMAIN bets :
        bets[i].bet_type = "player_prop" =>
            bets[i].player_id # None /\ bets[i].prop_type # None

\* C23: the scores of a game that is finished with both scores never change
\* afterwards, and only finished games carry a score.
C23_ScoresImmutable ==
    [][/\ \A g \in DOMAIN games :
             FinishedWithScores(g) =>
                 /\ games'[g].home_score = games[g].home_score
                 /\ games'[g].away_score = games[g].away_score
       /\ \A g \in DOMAIN games' :
             (games'[g].home_score # None \/ games'[g].away_score # None) =>
                 games'[g].status = "finished"]_vars

\* C24: two interleaved sweeps on separate sessions both count a parlay that
\* both read as pending, so their counts add up to more than the number of
\* parlays that left pending: when both have returned, the sum of the counts
\* is at least the number of parlays that left pending plus the number of
\* parlays both sessions evaluated.
C24_BothSessionsCount ==
    (sessions[1].pc = "done" /\ sessions[2].pc = "done") =>
        sessions[1].count + sessions[2].count >=
            Cardinality(sessions[1].left \cup sessions[2].left)
            + Cardinality(sessions[1].ready \cap sessions[2].ready)

C24_Witness ==
    /\ sessions[1].pc = "done" /\ sessions[2].pc = "done"
    /\ sessions[1].ready \cap sessions[2].ready # {}
    /\ sessions[1].left \cup sessions[2].left # {}
    /\ sessions[1].count + sessions[2].count >
           Cardinality(sessions[1].left \cup sessions[2].left)

\* C25: a GET request for /parlays/update-status is dispatched to the handler
\* update_parlay_statuses, which runs the sweep.
C25_SweepIsRoutable ==
    \A k \in DOMAIN evals :
        (evals[k].method = "GET" /\ evals[k].path = <<"parlays", "update-status">>) =>
            evals[k].ran = Some("update_parlay_statuses")

MalformedLeg(i) ==
    /\ bets[i].game_id \in DOMAIN games
    /\ games[bets[i].game_id].status = "finished"
    /\ (games[bets[i].game_id].home_score = None \/ games[bets[i].game_id].away_score = None)

\* C26: a sweep that evaluates a parlay holding a leg on a finished game with
\* a null score signals the malformed game: it does not complete as a normal
\* sweep that leaves the leg pending and commits the other statuses.
C26_MalformedIsSignalled ==
    [][(\E p \in Evaluated : \E i \in LegIdx(p) : MalformedLeg(i)) => ~update_parlay_statuses]_vars

FitsType(bet) ==
    \/ bet.bet_type = "moneyline" /\ bet.selection \in {"home", "away"}
    \/ bet.bet_type = "spread" /\ bet.selection \in {"home", "away"}
    \/ bet.bet_type = "over_under" /\ bet.selection \in {"over", "under"}

Gradable(bet) ==
    /\ FitsType(bet)
    /\ bet.game_id \in DOMAIN games
    /\ games[bet.game_id].status = "finished"
    /\ games[bet.game_id].home_score # None
    /\ games[bet.game_id].away_score # None
    /\ bet.bet_type \in {"spread", "over_under"} =>
           /\ <<bet.game_id, "DraftKings">> \in DOMAIN odds
           /\ odds[<<bet.game_id, "DraftKings">>][RelevantLine(bet)] # None

\* C27: after a sweep no parlay is pending whose legs are all gradable
\* (moneyline, spread or total with a fitting selection, on a finished game
\* with both scores and, for spread and total, a DraftKings quote with the
\* line); the legs of such a parlay are all won, lost or push.
C27_GradableIsSettled ==
    [][update_parlay_statuses =>
         \A p \in DOMAIN parlays :
            (\A i \in LegIdx(p) : Gradable(bets[i])) =>
               /\ parlays'[p].status # "pending"
               /\ \A i \in LegIdx(p) : bets'[i].status \in {"won", "lost", "push"}]_vars

Unfit(bet) ==
    \/ bet.bet_type \notin {"moneyline", "spread", "over_under", "player_prop"}
    \/ bet.bet_type \in {"moneyline", "spread"} /\ bet.selection \notin {"home", "away"}
    \/ bet.bet_type \in {"over_under", "player_prop"} /\ bet.selection \notin {"over", "under"}

\* C28: a leg whose bet type is none of moneyline, spread, over_under and
\* player_prop, or whose selection does not fit its bet type, evaluates to
\* pending in every state of the store.
C28_UnfitIsPending ==
    \A k \in DOMAIN evals :
        Unfit(bets[evals[k].leg]) => evals[k].status = "pending"

Unpriced(bd) ==
    /\ bd.odds = None
    /\ get_odds_for_bet(bd.game_id, bd.bet_type, bd.selection, bd.player_id, bd.prop_type) = None

\* C29: a creation request holding a leg without a stated price for which the
\* store has no odds fails (status 500) and leaves the parlays and the bets as
\* they were, whatever legs come before the unpriced one.
C29_FailedCreateStoresNothing ==
    [][\A bets_data \in PostedBets :
          (/\ post_parlay(None, 1, bets_data)
           /\ \E i \in DOMAIN bets_data : Unpriced(bets_data[i])) =>
              /\ parlays' = parlays
              /\ bets' = bets
              /\ evals'[Len(evals')].status_code = 500]_vars

\* a request of a priced leg followed by an unpriced one was refused, both
\* games being stored, and the store holds no parlay and no bet
C29_Witness ==
    /\ Len(evals) = 1
    /\ evals[1].status_code = 500
    /\ Len(evals[1].bets) = 2
    /\ evals[1].bets[1].odds # None
    /\ Unpriced(evals[1].bets[2])
    /\ DOMAIN games = {1, 2}
    /\ parlays = <<>>
    /\ bets = <<>>

\* C30: after every step of creating, sweeping, editing and deleting, each
\* stored bet references a stored parlay; a deletion removes the parlay and
\* all of its bets and leaves the bets of every other parlay as they were; a
\* created parlay is pending and so are all of its bets.
C30_BetsHaveParlays ==
    [][/\ \A i \in DOMAIN bets' : bets'[i].parlay_id \in DOMAIN parlays'
       /\ \A id \in DOMAIN parlays :
             delete_parlay(id) =>
                /\ id \notin DOMAIN parlays'
                /\ \A p \in ParlayIds :
                      LegsOf(bets', p) = IF p = id THEN <<>> ELSE LegsOf(bets, p)
       /\ \A p \in DOMAIN parlays' \ DOMAIN parlays :
             /\ parlays'[p].status = "pending"
             /\ \A i \in DOMAIN bets' :
                   bets'[i].parlay_id = p => bets'[i].status = "pending"]_vars

\* parlay 1 has been deleted; parlay 2 and its bets are stored
C30_Witness ==
    /\ DOMAIN parlays = {2}
    /\ bets # <<>>
    /\ \A i \in DOMAIN bets : bets[i].parlay_id = 2

==========================================================================
